---- MODULE Spec2Model ----
(***************************************************************************)
(* State-machine model of the English-tutoring web application:            *)
(*   - the recording capturer of VisualDictView and of ChatView            *)
(*     (startRecording / stopRecording / MediaRecorder callbacks),         *)
(*   - the joined visual-vocabulary operation (generateVisualVocab,        *)
(*     handleSubmit),                                                      *)
(*   - speech synthesis (generateSpeech, handleSpeak, handlePlayAudio).    *)
(* React state is modelled by one variable per useState / useRef cell; an  *)
(* option value (T | null) is a sequence of length 0 or 1.                 *)
(***************************************************************************)
EXTENDS Integers, Sequences, FiniteSets, TLC

VARIABLES
    view,                \* the view App has mounted
    word,                \* VisualDictView: text of the input field
    card,                \* VisualDictView: VocabCard | null
    isLoading,           \* handleSubmit (VisualDictView) / handleSend (ChatView) in progress
    isTTSLoading,        \* VisualDictView: handleSpeak in progress
    isRecording,         \* the recording flag
    pronunciationResult, \* VisualDictView: {score, feedback} | null
    isAnalyzing,         \* VisualDictView: an onstop analysis is running
    mediaRecorderRef,    \* 0 (null) or the index of a recorder in recorders
    chunksRef,           \* the chunk accumulator (chunksRef.current)
    timerRef,            \* ChatView: 0 (null) or the id of an interval
    timers,              \* ChatView: the intervals that are running
    messages,            \* ChatView: the message list
    input,               \* ChatView: text of the textarea
    attachment,          \* ChatView: Attachment | null
    recorders,           \* every MediaRecorder created, with its stream
    pendingMic,          \* getUserMedia calls awaiting the user's answer
    submits,             \* generateVisualVocab invocations and their two remote calls
    speech,              \* generateSpeech invocations
    alerts,              \* the alert() calls, in order
    console,             \* what console.error has logged
    nStarts,             \* number of startRecording calls so far
    nData,               \* number of data-available events so far
    now,                 \* Date.now()
    requests,            \* the remote requests issued, in order
    storage,             \* localStorage 'chat_history': the stored text, or null
    session,             \* ChatView: the history createChatSession was given, or null
    staged,              \* ChatView: the messages the mount effect has set, until the re-render
    sends,               \* ChatView: handleSend invocations made from the input bar
    lesson,              \* LessonView: GeneratedLesson | null
    generates,           \* LessonView: generateLessonPlan invocations
    activeTab,           \* LessonView: 'create' | 'history'
    selectedTopic,       \* LessonView: the topic selected (the level select is alike)
    quizAnswers,         \* LessonView: the option chosen for each question answered
    showResults,         \* LessonView: the quiz is corrected
    isSaved,             \* LessonView: the lesson shown is in the history
    history,             \* LessonView: LessonResult[], newest first
    lessonStorage,       \* localStorage 'lesson_history': the stored list, or null
    audio,               \* the audio pipeline: bytes, their encoding, the decoded buffer
    lastOp               \* the last operation that ran, and its argument

vars == <<view, word, card, isLoading, isTTSLoading, isRecording, pronunciationResult,
          isAnalyzing, mediaRecorderRef, chunksRef, timerRef, timers, messages, input,
          attachment, recorders, pendingMic, submits, speech, alerts, console,
          nStarts, nData, now, requests, storage, session, staged, sends, lesson,
          generates, activeTab, selectedTopic, quizAnswers, showResults,
          isSaved, history, lessonStorage, audio, lastOp>>

\* Variables of LessonView's quiz and history.
quizVars == <<activeTab, selectedTopic, quizAnswers, showResults, isSaved,
              history, lessonStorage>>

\* Variables of the chat session, of LessonView and of the audio pipeline.
extVars == <<session, staged, sends, lesson, generates, quizVars, audio>>

\* Variables of the capturer and of what its onstop handlers drive.
capturerVars == <<isRecording, pronunciationResult, isAnalyzing, mediaRecorderRef,
                  chunksRef, timerRef, timers, messages, input, attachment, recorders,
                  pendingMic, nStarts, nData>>

\* Variables of the vocabulary and speech operations.
remoteVars == <<word, submits, speech, isTTSLoading>>

(***************************************************************************)
(* Bounds of the model.                                                    *)
(***************************************************************************)
MaxStarts == 2
MaxJobStarts == 1
MaxData == 2
MaxChunkSize == 1
MaxSubmits == 2
MaxSpeech == 1
MaxClock == 2
MaxGenerates == 2
MaxOps == 2
MaxBytes == 3
MaxSamples == 4
MaxChannels == 2
MaxStored == 2
MaxMessages == 4
MaxQuestions == 1
MaxLessons == 1

Views == {"VisualDictView", "ChatView"}
Words == {"cat"}
InputWords == Words \cup {"", " "}
ChunkSizes == {0, MaxChunkSize}

Null == <<>>
Some(v) == <<v>>
IsNull(o) == o = <<>>
Val(o) == o[1]

Op(name, rec, arg) == [op |-> name, rec |-> rec, arg |-> arg]

VocabCard(w, example, imageUrl, definition) ==
    [word |-> w, example |-> example, imageUrl |-> imageUrl, definition |-> definition]

\* alert(text), with the operation and invocation that raised it.
Alert(text, by, id) == [text |-> text, by |-> by, id |-> id]

\* A remote request: ai.models.generateContent / chat.sendMessage, with the
\* operation's invocation that issued it.
Req(kind, id) == [kind |-> kind, id |-> id]

\* What a catch block does about the request that failed: nothing is issued.
RetryAfterFailure(reqs, kind, id) == Append(reqs, Req(kind, id))

AfterFailure(reqs, kind, id) == reqs

(***************************************************************************)
(* Chat persistence.                                                       *)
(***************************************************************************)
\* ({ isLoadingAudio, ...rest }) => rest; JSON.stringify drops what is undefined.
Rest(m) == [id |-> m.id, role |-> m.role, text |-> m.text, attachment |-> m.attachment]

\* JSON.stringify(messages.map(...)): the stored text, as the list it encodes.
Stringify(msgs) == [kind |-> "json", value |-> [k \in 1..Len(msgs) |-> Rest(msgs[k])]]

\* The body of the save effect in a render whose messages are msgs.
SaveRenderAlways(msgs, stored) == Some(Stringify(msgs))

SaveRender(msgs, stored) ==
    IF Len(msgs) > 0 THEN Some(Stringify(msgs)) ELSE stored

\* The save effect, run after a render in which messages changed.
Save(old, new, stored) == IF new # old THEN SaveRender(new, stored) ELSE stored

SaveEffect == storage' = Save(messages, messages', storage)

(***************************************************************************)
(* Blobs and the base64 transport encoding.                                *)
(***************************************************************************)
\* A chunk delivered by a data-available event: e.data. Its bytes are size
\* copies of the event's arrival stamp.
Chunk(r, stamp, size) == [rec |-> r, stamp |-> stamp, bytes |-> [i \in 1..size |-> stamp]]

ChunkSize(c) == Len(c.bytes)

RECURSIVE Flatten(_)
Flatten(chunks) ==
    IF chunks = <<>> THEN <<>> ELSE Head(chunks).bytes \o Flatten(Tail(chunks))

\* new Blob(chunksRef.current, {type: 'audio/mp3'})
NewBlob(chunks) == Flatten(chunks)

\* Base64: 3 bytes to 4 sextets; 64 stands for the padding character '='.
Pad == 64

RECURSIVE Encode(_)
Encode(bytes) ==
    IF Len(bytes) = 0 THEN <<>>
    ELSE IF Len(bytes) = 1 THEN
        << bytes[1] \div 4, (bytes[1] % 4) * 16, Pad, Pad >>
    ELSE IF Len(bytes) = 2 THEN
        << bytes[1] \div 4, (bytes[1] % 4) * 16 + bytes[2] \div 16,
           (bytes[2] % 16) * 4, Pad >>
    ELSE
        << bytes[1] \div 4, (bytes[1] % 4) * 16 + bytes[2] \div 16,
           (bytes[2] % 16) * 4 + bytes[3] \div 64, bytes[3] % 64 >>
        \o Encode(SubSeq(bytes, 4, Len(bytes)))

blobToBase64(blob) == Encode(blob)

\* decode(text): the bytes of a base64 text, or nothing (FormatError) when
\* its length is no multiple of 4, a character is outside the alphabet, or
\* padding stands anywhere but at the end of the last group.
Sextet(x) == x \in 0..63

DecodeIgnoringPadding(text) ==
    IF Len(text) % 4 # 0 THEN Null
    ELSE Some([i \in 1..(3 * (Len(text) \div 4)) |-> 0])

RECURSIVE Decode(_)
Decode(text) ==
    IF Len(text) = 0 THEN Some(<<>>)
    ELSE IF Len(text) < 4 \/ ~Sextet(text[1]) \/ ~Sextet(text[2]) THEN Null
    ELSE LET a == text[1]
             b == text[2]
             c == text[3]
             d == text[4]
             b1 == a * 4 + b \div 16
             b2 == (b % 16) * 16 + c \div 4
             b3 == (c % 4) * 64 + d
         IN  IF c = Pad
             THEN IF d = Pad /\ Len(text) = 4 THEN Some(<<b1>>) ELSE Null
             ELSE IF ~Sextet(c) THEN Null
             ELSE IF d = Pad
             THEN IF Len(text) = 4 THEN Some(<<b1, b2>>) ELSE Null
             ELSE IF ~Sextet(d) THEN Null
             ELSE LET rest == Decode(SubSeq(text, 5, Len(text)))
                  IN  IF IsNull(rest) THEN Null ELSE Some(<<b1, b2, b3>> \o Val(rest))

(***************************************************************************)
(* The PCM frame decoder.                                                  *)
(***************************************************************************)
\* The little-endian signed 16-bit integer of a byte pair.
Int16Unsigned(lo, hi) == lo + 256 * hi

Int16(lo, hi) == IF hi >= 128 THEN lo + 256 * hi - 65536 ELSE lo + 256 * hi

\* The sample v / 32768.0, as a fraction.
Sample(v) == [num |-> v, den |-> 32768]

\* The byte stream as samples: one per whole byte pair.
SamplesRoundUp(bytes) ==
    [i \in 1..((Len(bytes) + 1) \div 2) |->
        Sample(Int16(bytes[2 * i - 1], IF 2 * i <= Len(bytes) THEN bytes[2 * i] ELSE 0))]

Samples(bytes) ==
    [i \in 1..(Len(bytes) \div 2) |-> Sample(Int16(bytes[2 * i - 1], bytes[2 * i]))]

\* The samples of channel ch (counted from 0) of c interleaved channels.
ChannelPlanar(samples, c, ch) ==
    LET n == Len(samples) \div c
    IN  [k \in 1..n |-> samples[ch * n + k]]

Channel(samples, c, ch) ==
    LET n == (Len(samples) - ch + c - 1) \div c
    IN  [k \in 1..n |-> samples[(k - 1) * c + ch + 1]]

\* decodeAudioData(bytes, sampleRate, channelCount): the SampleBuffer, or
\* nothing (DecodeError) when channelCount < 1 or bytes is empty.
decodeAudioDataUnchecked(bytes, sampleRate, channelCount) ==
    Some([sampleRate |-> sampleRate, channelCount |-> channelCount,
          channels |-> [ch \in 1..channelCount |->
                            Channel(Samples(bytes), channelCount, ch - 1)]])

decodeAudioData(bytes, sampleRate, channelCount) ==
    IF channelCount < 1 \/ Len(bytes) = 0 THEN Null
    ELSE Some([sampleRate |-> sampleRate, channelCount |-> channelCount,
               channels |-> [ch \in 1..channelCount |->
                                 Channel(Samples(bytes), channelCount, ch - 1)]])

\* The audio pipeline at rest.
NoAudio ==
    [stage |-> "none", bytes |-> <<>>, channelCount |-> 1,
     text |-> <<>>, decoded |-> Null, buffer |-> Null]

\* Byte sequences fed to the codec, and PCM streams fed to the decoder: the
\* little-endian bytes of up to MaxSamples samples, with or without a
\* trailing odd byte.
ByteVals == {0, 1, 127, 128, 255}

SampleVals == {-32768, -1, 0, 32767}

RECURSIVE SeqsUpTo(_, _)
SeqsUpTo(S, n) ==
    IF n = 0 THEN {<<>>}
    ELSE LET shorter == SeqsUpTo(S, n - 1)
         IN  shorter \cup {Append(q, x) : q \in {r \in shorter : Len(r) = n - 1}, x \in S}

LittleEndian(v) == LET u == (v + 65536) % 65536 IN <<u % 256, u \div 256>>

RECURSIVE PcmBytes(_)
PcmBytes(vs) == IF vs = <<>> THEN <<>> ELSE LittleEndian(Head(vs)) \o PcmBytes(Tail(vs))

AudioInputs ==
    SeqsUpTo(ByteVals, MaxBytes)
    \cup {PcmBytes(vs) \o tail : vs \in SeqsUpTo(SampleVals, MaxSamples), tail \in {<<>>, <<1>>}}

\* blobToBase64(blob): the blob's bytes are encoded to text.
EncodeAudio ==
    /\ audio.stage = "blob"
    /\ audio' = [audio EXCEPT !.stage = "text", !.text = blobToBase64(audio.bytes)]
    /\ lastOp' = Op("encode", 0, 0)
    /\ UNCHANGED <<session, staged, sends, lesson, generates, quizVars, requests, view, card, now, isLoading, alerts,
                   console, remoteVars, capturerVars>>
    /\ SaveEffect

\* decode(base64): the text is decoded to bytes.
DecodeAudio ==
    /\ audio.stage = "text"
    /\ audio' = [audio EXCEPT !.stage = "bytes", !.decoded = Decode(audio.text)]
    /\ lastOp' = Op("decode", 0, 0)
    /\ UNCHANGED <<session, staged, sends, lesson, generates, quizVars, requests, view, card, now, isLoading, alerts,
                   console, remoteVars, capturerVars>>
    /\ SaveEffect

\* decodeAudioData(decode(base64), audioCtx, 24000, channelCount)
DecodePcm ==
    /\ audio.stage = "bytes"
    /\ ~IsNull(audio.decoded)
    /\ LET buffer == decodeAudioData(Val(audio.decoded), 24000, audio.channelCount)
       IN  audio' = [audio EXCEPT !.stage = IF IsNull(buffer) THEN "error" ELSE "buffer",
                                  !.buffer = buffer]
    /\ lastOp' = Op("pcm", 0, 0)
    /\ UNCHANGED <<session, staged, sends, lesson, generates, quizVars, requests, view, card, now, isLoading, alerts,
                   console, remoteVars, capturerVars>>
    /\ SaveEffect

(***************************************************************************)
(* The recording capturer.                                                 *)
(***************************************************************************)
\* A MediaRecorder with the stream it records and the closure of its onstop.
\*   state     MediaRecorder.state
\*   stopTask  stop() has queued the task that fires dataavailable and stop
\*   trackLive the stream's track has not been stopped
\*   card      VisualDictView: the card the onstop closure captured
\*   input     ChatView: the input text handleSend's closure captured
\*   blob      the AudioBlob its onstop built, if any
\*   heard     non-empty data events delivered between its start and its onstop
\*   emitted   the non-empty chunks of its own data events, in order
\*   cancelled ChatView: it was stopped by stopRecording(false)
\*   job       what its onstop handler is waiting for
NewRecorder(closure) ==
    [state |-> "recording", stopTask |-> FALSE, trackLive |-> TRUE,
     card |-> closure.card, input |-> closure.input,
     blob |-> Null, heard |-> 0, emitted |-> <<>>, cancelled |-> FALSE, job |-> "none"]

\* MediaRecorder.stop(): the recorder turns inactive at once; the final
\* dataavailable and the stop event are fired from a queued task.
MediaRecorderStop(rec) ==
    IF rec.state = "inactive" THEN rec
    ELSE [rec EXCEPT !.state = "inactive", !.stopTask = TRUE]

\* stream.getTracks().forEach(t => t.stop())
StopTracks(rec) == [rec EXCEPT !.trackLive = FALSE]

\* chunksRef.current = []
KeepAccumulator(chunks) == chunks

ResetAccumulator(chunks) == <<>>

\* ondataavailable: if (e.data.size > 0) chunksRef.current.push(e.data)
OnDataAvailableAlways(chunks, c) == Append(chunks, c)

OnDataAvailable(chunks, c) == IF ChunkSize(c) > 0 THEN Append(chunks, c) ELSE chunks

\* Every recorder between its start and its onstop hears a non-empty chunk,
\* and the recorder it comes from has emitted it.
Hear(recs, c) ==
    [i \in 1..Len(recs) |->
        IF ChunkSize(c) > 0
        THEN [recs[i] EXCEPT !.heard = IF IsNull(recs[i].blob) THEN @ + 1 ELSE @,
                             !.emitted = IF i = c.rec THEN Append(@, c) ELSE @]
        ELSE recs[i]]

\* startRecording up to its await: navigator.mediaDevices.getUserMedia. The
\* closure of the call keeps the card of the render it was made in.
StartRecording ==
    /\ nStarts' = nStarts + 1
    /\ pendingMic' = Append(pendingMic, [card |-> card, input |-> input])
    /\ lastOp' = Op("start", 0, 0)
    /\ UNCHANGED <<extVars, requests, view, card, now, isLoading, alerts, console, remoteVars, isRecording,
                   pronunciationResult, isAnalyzing, mediaRecorderRef, chunksRef,
                   timerRef, timers, messages, input, attachment, recorders, nData>>
    /\ SaveEffect

RemoveAt(s, i) == SubSeq(s, 1, i - 1) \o SubSeq(s, i + 1, Len(s))

\* getUserMedia resolves: the rest of startRecording's try block.
GrantMicForgetsFlag(i) ==
    /\ i \in 1..Len(pendingMic)
    /\ recorders' = Append(recorders, NewRecorder(pendingMic[i]))
    /\ pendingMic' = RemoveAt(pendingMic, i)
    /\ mediaRecorderRef' = Len(recorders) + 1
    /\ chunksRef' = ResetAccumulator(chunksRef)
    /\ isRecording' = isRecording
    /\ IF view = "VisualDictView"
       THEN /\ pronunciationResult' = Null
            /\ UNCHANGED <<timerRef, timers>>
       ELSE /\ timerRef' = Len(recorders) + 1
            /\ timers' = timers \cup {Len(recorders) + 1}
            /\ UNCHANGED pronunciationResult
    /\ lastOp' = Op("grant", Len(recorders) + 1, 0)
    /\ UNCHANGED <<extVars, requests, view, card, now, isLoading, alerts, console, remoteVars, isAnalyzing,
                   messages, input, attachment, nStarts, nData>>
    /\ SaveEffect

GrantMic(i) ==
    /\ i \in 1..Len(pendingMic)
    /\ recorders' = Append(recorders, NewRecorder(pendingMic[i]))
    /\ pendingMic' = RemoveAt(pendingMic, i)
    /\ mediaRecorderRef' = Len(recorders) + 1
    /\ chunksRef' = ResetAccumulator(chunksRef)
    /\ isRecording' = TRUE
    /\ IF view = "VisualDictView"
       THEN /\ pronunciationResult' = Null
            /\ UNCHANGED <<timerRef, timers>>
       ELSE /\ timerRef' = Len(recorders) + 1
            /\ timers' = timers \cup {Len(recorders) + 1}
            /\ UNCHANGED pronunciationResult
    /\ lastOp' = Op("grant", Len(recorders) + 1, 0)
    /\ UNCHANGED <<extVars, requests, view, card, now, isLoading, alerts, console, remoteVars, isAnalyzing,
                   messages, input, attachment, nStarts, nData>>
    /\ SaveEffect

\* getUserMedia rejects (permission denied, no input device): the catch block.
DenyMicSetsFlag(i) ==
    /\ i \in 1..Len(pendingMic)
    /\ pendingMic' = RemoveAt(pendingMic, i)
    /\ isRecording' = TRUE
    /\ console' = console \cup {"Mic error"}
    /\ lastOp' = Op("deny", 0, 0)
    /\ UNCHANGED <<extVars, requests, view, card, now, isLoading, alerts, remoteVars, pronunciationResult,
                   isAnalyzing, mediaRecorderRef, chunksRef, timerRef, timers, messages,
                   input, attachment, recorders, nStarts, nData>>
    /\ SaveEffect

DenyMic(i) ==
    /\ i \in 1..Len(pendingMic)
    /\ pendingMic' = RemoveAt(pendingMic, i)
    /\ IF view = "VisualDictView"
       THEN /\ console' = console \cup {"Mic error"}
            /\ UNCHANGED alerts
       ELSE /\ console' = console \cup {"Error accessing microphone"}
            /\ alerts' = Append(alerts, Alert("Could not access microphone.", "startRecording", 0))
    /\ lastOp' = Op("deny", 0, 0)
    /\ UNCHANGED <<extVars, requests, view, card, now, isLoading, remoteVars, isRecording, pronunciationResult,
                   isAnalyzing, mediaRecorderRef, chunksRef, timerRef, timers, messages,
                   input, attachment, recorders, nStarts, nData>>
    /\ SaveEffect

\* A data-available event of a recorder that is recording (platform-driven).
DataAvailable(r, size) ==
    /\ r \in 1..Len(recorders)
    /\ recorders[r].state = "recording"
    /\ nData < MaxData
    /\ nData' = nData + 1
    /\ chunksRef' = OnDataAvailable(chunksRef, Chunk(r, nData + 1, size))
    /\ recorders' = Hear(recorders, Chunk(r, nData + 1, size))
    /\ lastOp' = Op("data", r, size)
    /\ UNCHANGED <<extVars, requests, view, card, now, isLoading, alerts, console, remoteVars, isRecording,
                   pronunciationResult, isAnalyzing, mediaRecorderRef, timerRef, timers,
                   messages, input, attachment, pendingMic, nStarts>>
    /\ SaveEffect

\* stopRecording. VisualDictView: everything under the guard. ChatView
\* (shouldSend true or false alike): the recorder under the guard, then the
\* flag and the timer unconditionally.
StopRecordingClearsChunks ==
    /\ IF mediaRecorderRef # 0 /\ isRecording
       THEN recorders' = [recorders EXCEPT
                ![mediaRecorderRef] = StopTracks(MediaRecorderStop(@))]
       ELSE UNCHANGED recorders
    /\ chunksRef' = <<>>
    /\ isRecording' = FALSE
    /\ timers' = timers \ {timerRef}
    /\ timerRef' = 0
    /\ lastOp' = Op("stop", mediaRecorderRef, IF mediaRecorderRef # 0 /\ isRecording THEN 1 ELSE 0)
    /\ UNCHANGED <<extVars, requests, view, card, now, isLoading, alerts, console, remoteVars,
                   pronunciationResult, isAnalyzing, mediaRecorderRef,
                   messages, input, attachment, pendingMic, nStarts, nData>>
    /\ SaveEffect

StopRecording ==
    /\ IF mediaRecorderRef # 0 /\ isRecording
       THEN recorders' = [recorders EXCEPT
                ![mediaRecorderRef] = StopTracks(MediaRecorderStop(@))]
       ELSE UNCHANGED recorders
    /\ IF view = "VisualDictView"
       THEN /\ isRecording' = (IF mediaRecorderRef # 0 /\ isRecording THEN FALSE
                               ELSE isRecording)
            /\ UNCHANGED <<timerRef, timers>>
       ELSE /\ isRecording' = FALSE
            /\ timers' = timers \ {timerRef}
            /\ timerRef' = 0
    /\ lastOp' = Op("stop", mediaRecorderRef, IF mediaRecorderRef # 0 /\ isRecording THEN 1 ELSE 0)
    /\ UNCHANGED <<extVars, requests, view, card, now, isLoading, alerts, console, remoteVars,
                   pronunciationResult, isAnalyzing, mediaRecorderRef, chunksRef,
                   messages, input, attachment, pendingMic, nStarts, nData>>
    /\ SaveEffect

\* ChatView's Cancel button, rendered while isRecording: stopRecording(false).
\* Both branches of its shouldSend test call mediaRecorderRef.current.stop().
CancelRecording ==
    /\ view = "ChatView"
    /\ isRecording
    /\ IF mediaRecorderRef # 0 /\ isRecording
       THEN recorders' = [recorders EXCEPT
                ![mediaRecorderRef] = [StopTracks(MediaRecorderStop(@)) EXCEPT
                                          !.cancelled = TRUE]]
       ELSE UNCHANGED recorders
    /\ isRecording' = FALSE
    /\ timers' = timers \ {timerRef}
    /\ timerRef' = 0
    /\ lastOp' = Op("cancel", mediaRecorderRef, 0)
    /\ UNCHANGED <<extVars, requests, view, card, now, isLoading, alerts, console, remoteVars,
                   pronunciationResult, isAnalyzing, mediaRecorderRef, chunksRef,
                   messages, input, attachment, pendingMic, nStarts, nData>>
    /\ SaveEffect

(***************************************************************************)
(* The onstop handlers and what they start.                                *)
(***************************************************************************)
Scores == {9, 11}

\* What the pronunciation call can do: reject, or resolve with no text, with
\* text that is not JSON, or with a JSON object holding a score.
ScoreResponses ==
    [kind : {"reject", "notext", "badjson"}, score : {0}] \cup [kind : {"json"}, score : Scores]

\* checkPronunciation: the parsed response, or nothing when it throws.
checkPronunciation(targetWord, response) ==
    IF response.kind = "json"
    THEN Some([score |-> response.score, feedback |-> "feedback", forWord |-> targetWord])
    ELSE Null

\* Date.now(): the clock has advanced since the last read, or has not.
ClockReads == {now, now + 1} \cap (1..MaxClock)

\* handleSend's two messages after the request.
ChatResponses == {"text", "notext", "reject"}

UserMessage(id, text, att) ==
    [id |-> id, role |-> "user", text |-> text, isLoadingAudio |-> FALSE, attachment |-> att]

ModelMessage(id, text) ==
    [id |-> id, role |-> "model", text |-> text, isLoadingAudio |-> FALSE, attachment |-> Null]

Greeting == ModelMessage(0, "Hello! I'm LinguaBot.")

AudioAttachment(blob) == [type |-> "audio", data |-> blobToBase64(blob)]

\* The task MediaRecorder.stop() queued: the final dataavailable, then onstop
\* up to its first await (blobToBase64).
FireStop(r, size) ==
    /\ r \in 1..Len(recorders)
    /\ recorders[r].stopTask
    /\ nData' = nData + 1
    /\ chunksRef' = OnDataAvailable(chunksRef, Chunk(r, nData + 1, size))
    /\ recorders' = [Hear(recorders, Chunk(r, nData + 1, size)) EXCEPT
                        ![r].stopTask = FALSE,
                        ![r].blob = Some(NewBlob(chunksRef')),
                        ![r].job = "encoding"]
    /\ isAnalyzing' = (IF view = "VisualDictView" THEN TRUE ELSE isAnalyzing)
    /\ lastOp' = Op("onstop", r, size)
    /\ UNCHANGED <<extVars, requests, view, card, now, isLoading, alerts, console, remoteVars, isRecording,
                   pronunciationResult, mediaRecorderRef, timerRef, timers,
                   messages, input, attachment, pendingMic, nStarts>>
    /\ SaveEffect

\* blobToBase64 resolves. VisualDictView: checkPronunciation is called if the
\* closure's card is set, else the finally block runs. ChatView: handleSend
\* (undefined, the audio attachment) runs up to chat.sendMessage.
BlobEncoded(r) ==
    /\ r \in 1..Len(recorders)
    /\ recorders[r].job = "encoding"
    /\ IF view = "VisualDictView"
       THEN /\ IF IsNull(recorders[r].card)
               THEN /\ recorders' = [recorders EXCEPT ![r].job = "done"]
                    /\ isAnalyzing' = FALSE
               ELSE /\ recorders' = [recorders EXCEPT ![r].job = "scoring"]
                    /\ UNCHANGED isAnalyzing
            /\ UNCHANGED <<messages, input, attachment, isLoading, now>>
       ELSE /\ \E t \in ClockReads :
                /\ now' = t
                /\ messages' = Append(messages,
                        UserMessage(t, recorders[r].input,
                                    Some(AudioAttachment(Val(recorders[r].blob)))))
            /\ input' = ""
            /\ attachment' = Null
            /\ isLoading' = TRUE
            /\ recorders' = [recorders EXCEPT ![r].job = "sending"]
            /\ UNCHANGED isAnalyzing
    /\ requests' = (IF view = "VisualDictView"
                     THEN (IF IsNull(recorders[r].card) THEN requests
                           ELSE Append(requests, Req("pronunciation", r)))
                     ELSE Append(requests, Req("chat", r)))
    /\ lastOp' = Op("encoded", r, 0)
    /\ UNCHANGED <<extVars, view, card, alerts, console, remoteVars, isRecording,
                   pronunciationResult, mediaRecorderRef, chunksRef, timerRef, timers,
                   pendingMic, nStarts, nData>>
    /\ SaveEffect

\* VisualDictView: the pronunciation call completes; the rest of onstop.
PronunciationCompletes(r, response) ==
    /\ r \in 1..Len(recorders)
    /\ recorders[r].job = "scoring"
    /\ LET result == checkPronunciation(Val(recorders[r].card).word, response) IN
       IF IsNull(result)
       THEN /\ console' = console \cup {"Analysis error"}
            /\ alerts' = Append(alerts, Alert("Erreur lors de l'analyse.", "onstop", r))
            /\ recorders' = [recorders EXCEPT ![r].job = "failed"]
            /\ UNCHANGED pronunciationResult
       ELSE /\ pronunciationResult' = result
            /\ recorders' = [recorders EXCEPT ![r].job = "done"]
            /\ UNCHANGED <<console, alerts>>
    /\ isAnalyzing' = FALSE
    /\ requests' = (IF response.kind # "json"
                     THEN AfterFailure(requests, "pronunciation", r) ELSE requests)
    /\ lastOp' = Op("scored", r, 0)
    /\ UNCHANGED <<extVars, view, card, now, isLoading, remoteVars, isRecording,
                   mediaRecorderRef, chunksRef, timerRef, timers, messages, input,
                   attachment, pendingMic, nStarts, nData>>
    /\ SaveEffect

\* ChatView: chat.sendMessage completes; the rest of handleSend.
ChatCompletes(r, response) ==
    /\ r \in 1..Len(recorders)
    /\ recorders[r].job = "sending"
    /\ \E t \in ClockReads :
        /\ now' = t
        /\ IF response = "reject"
           THEN /\ messages' = Append(messages,
                        ModelMessage(t, "Sorry, I encountered an error processing your message."))
                /\ console' = console \cup {"Chat error"}
                /\ recorders' = [recorders EXCEPT ![r].job = "failed"]
           ELSE /\ messages' = Append(messages,
                        ModelMessage(t + 1,
                            IF response = "text" THEN "reply"
                            ELSE "I understood, but I don't have a text response."))
                /\ recorders' = [recorders EXCEPT ![r].job = "done"]
                /\ UNCHANGED console
    /\ isLoading' = FALSE
    /\ requests' = (IF response = "reject"
                     THEN AfterFailure(requests, "chat", r) ELSE requests)
    /\ lastOp' = Op("replied", r, 0)
    /\ UNCHANGED <<extVars, view, card, alerts, remoteVars, isRecording, pronunciationResult,
                   isAnalyzing, mediaRecorderRef, chunksRef, timerRef, timers, input,
                   attachment, pendingMic, nStarts, nData>>
    /\ SaveEffect

(***************************************************************************)
(* The joined visual-vocabulary operation.                                 *)
(***************************************************************************)
\* The steps of the remote operations are recorded in submits and speech.
RemoteOp == Op("remote", 0, 0)

\* What the definition call can do: resolve with the JSON asked for, with no
\* text, or with text that is not JSON; or reject.
DefOutcomes == {"full", "notext", "badjson", "reject"}

\* What the image call can do: resolve with an inline image, with parts that
\* hold no image (or no candidates field), or with an empty candidates list or
\* a candidate without content (reading it throws); or reject.
ImgOutcomes == {"image", "noimage", "badshape", "reject"}

\* word.trim()
Trim(w) == IF w = " " THEN "" ELSE w

\* Promise.all([defPromise, imagePromise]): rejected as soon as one call is,
\* fulfilled once both are fulfilled.
PromiseAllFirstWins(d, g) ==
    IF d = "reject" \/ g = "reject" THEN "rejected"
    ELSE IF d = "pending" /\ g = "pending" THEN "pending"
    ELSE "fulfilled"

PromiseAll(d, g) ==
    IF d = "reject" \/ g = "reject" THEN "rejected"
    ELSE IF d = "pending" \/ g = "pending" THEN "pending"
    ELSE "fulfilled"

\* generateVisualVocab after the join: the card, or nothing when reading the
\* image response or parsing the text throws. A response that omits the word
\* or repeats it gives the card the word that was asked for.
BuildCard(w, d, g) ==
    IF g = "badshape" \/ d = "badjson" THEN Null
    ELSE Some(VocabCard(w,
                        IF d = "full" THEN "example" ELSE "undefined",
                        IF g = "image" THEN "data:image/png;base64" ELSE "",
                        IF d = "full" THEN "definition (Traduction: traduction)"
                        ELSE "undefined (Traduction: undefined)"))

\* setWord: the user types in the input field.
SetWord(w) ==
    /\ view = "VisualDictView"
    /\ w \in InputWords
    /\ w # word
    /\ word' = w
    /\ lastOp' = RemoteOp
    /\ UNCHANGED <<extVars, requests, view, card, now, isLoading, alerts, console, submits, speech,
                   isTTSLoading, capturerVars>>
    /\ SaveEffect

\* handleSubmit up to its await; the submit button is disabled while
\* isLoading or when word is empty. Both remote calls are issued.
HandleSubmit ==
    /\ view = "VisualDictView"
    /\ ~isLoading /\ word # ""
    /\ Len(submits) < MaxSubmits
    /\ IF Trim(word) = ""
       THEN UNCHANGED <<isLoading, card, pronunciationResult, submits>>
       ELSE /\ isLoading' = TRUE
            /\ card' = Null
            /\ pronunciationResult' = Null
            /\ submits' = Append(submits,
                    [word |-> word, def |-> "pending", img |-> "pending",
                     first |-> "none", result |-> "pending", card |-> Null])
    /\ requests' = (IF Trim(word) = "" THEN requests
                     ELSE requests \o <<Req("definition", Len(submits) + 1),
                                        Req("image", Len(submits) + 1)>>)
    /\ lastOp' = RemoteOp
    /\ UNCHANGED <<extVars, view, word, now, alerts, console, speech, isTTSLoading, isRecording,
                   isAnalyzing, mediaRecorderRef, chunksRef, timerRef, timers, messages,
                   input, attachment, recorders, pendingMic, nStarts, nData>>
    /\ SaveEffect

\* One of the two remote calls of invocation i has completed and left the
\* invocation as inv. If that settles the join, generateVisualVocab and
\* handleSubmit run to their end.
CallCompleted(i, inv) ==
    LET joined == PromiseAll(inv.def, inv.img)
        built  == BuildCard(inv.word, inv.def, inv.img)
    IN  IF submits[i].result # "pending" \/ joined = "pending"
        THEN /\ submits' = [submits EXCEPT ![i] = inv]
             /\ UNCHANGED <<card, isLoading, alerts, console>>
        ELSE IF joined = "rejected" \/ IsNull(built)
        THEN /\ submits' = [submits EXCEPT ![i] = [inv EXCEPT !.result = "failed"]]
             /\ console' = console \cup {"generateVisualVocab"}
             /\ alerts' = Append(alerts, Alert("Failed to generate visual card.", "handleSubmit", i))
             /\ isLoading' = FALSE
             /\ UNCHANGED card
        ELSE /\ submits' = [submits EXCEPT ![i] = [inv EXCEPT !.result = "card", !.card = built]]
             /\ card' = built
             /\ isLoading' = FALSE
             /\ UNCHANGED <<alerts, console>>

DefCompletes(i, outcome) ==
    /\ i \in 1..Len(submits)
    /\ submits[i].def = "pending"
    /\ CallCompleted(i, [submits[i] EXCEPT !.def = outcome,
                            !.first = IF @ = "none" THEN "def" ELSE @])
    /\ requests' = (IF outcome = "reject"
                     THEN AfterFailure(requests, "definition", i) ELSE requests)
    /\ lastOp' = RemoteOp
    /\ UNCHANGED <<extVars, view, word, now, speech, isTTSLoading, capturerVars>>
    /\ SaveEffect

ImgCompletes(i, outcome) ==
    /\ i \in 1..Len(submits)
    /\ submits[i].img = "pending"
    /\ CallCompleted(i, [submits[i] EXCEPT !.img = outcome,
                            !.first = IF @ = "none" THEN "img" ELSE @])
    /\ requests' = (IF outcome = "reject"
                     THEN AfterFailure(requests, "image", i) ELSE requests)
    /\ lastOp' = RemoteOp
    /\ UNCHANGED <<extVars, view, word, now, speech, isTTSLoading, capturerVars>>
    /\ SaveEffect

(***************************************************************************)
(* Speech synthesis.                                                       *)
(***************************************************************************)
\* What the speech call can do: resolve with audio, resolve without, reject.
SpeechOutcomes == {"audio", "noaudio", "reject"}

\* generateSpeech: the base64 audio, or null; a rejection is caught and logged.
generateSpeech(outcome) == IF outcome = "audio" THEN Some("base64") ELSE Null

\* messages.map(m => m.id === id ? {...m, isLoadingAudio: flag} : m)
SetLoadingAudio(msgs, id, flag) ==
    [k \in 1..Len(msgs) |->
        IF msgs[k].id = id THEN [msgs[k] EXCEPT !.isLoadingAudio = flag] ELSE msgs[k]]

\* VisualDictView: handleSpeak up to its await; the button is disabled while
\* isTTSLoading.
HandleSpeak ==
    /\ view = "VisualDictView"
    /\ ~isTTSLoading
    /\ Len(speech) < MaxSpeech
    /\ IF IsNull(card)
       THEN UNCHANGED <<isTTSLoading, speech>>
       ELSE /\ isTTSLoading' = TRUE
            /\ speech' = Append(speech,
                    [msg |-> 0, text |-> Val(card).word, outcome |-> "pending", played |-> FALSE])
    /\ requests' = (IF IsNull(card) THEN requests
                     ELSE Append(requests, Req("speech", Len(speech) + 1)))
    /\ lastOp' = RemoteOp
    /\ UNCHANGED <<extVars, view, word, card, now, isLoading, alerts, console, submits, capturerVars>>
    /\ SaveEffect

\* ChatView: handlePlayAudio(messages[m]) up to its await. A user's audio
\* attachment is played locally; a user message, an empty text or a message
\* that is loading returns at once.
HandlePlayAudio(m) ==
    /\ view = "ChatView"
    /\ m \in 1..Len(messages)
    /\ Len(speech) < MaxSpeech
    /\ LET msg == messages[m]
           local == /\ msg.role = "user"
                    /\ ~IsNull(msg.attachment)
                    /\ Val(msg.attachment).type = "audio"
           skip == local \/ msg.text = "" \/ msg.role = "user" \/ msg.isLoadingAudio
       IN  /\ IF skip
              THEN UNCHANGED <<messages, speech, requests>>
              ELSE /\ messages' = SetLoadingAudio(messages, msg.id, TRUE)
                   /\ requests' = Append(requests, Req("speech", Len(speech) + 1))
                   /\ speech' = Append(speech,
                        [msg |-> msg.id, text |-> msg.text, outcome |-> "pending", played |-> FALSE])
           /\ lastOp' = RemoteOp
    /\ UNCHANGED <<extVars, view, word, card, now, isLoading, isTTSLoading, alerts, console, submits,
                   isRecording, pronunciationResult, isAnalyzing, mediaRecorderRef,
                   chunksRef, timerRef, timers, input, attachment, recorders, pendingMic,
                   nStarts, nData>>
    /\ SaveEffect

\* The speech call of invocation i completes: the rest of generateSpeech and
\* of handleSpeak / handlePlayAudio. The audio is decoded and played if there
\* is any; the finally block clears the loading flag.
SpeechCompletes(i, outcome) ==
    /\ i \in 1..Len(speech)
    /\ speech[i].outcome = "pending"
    /\ speech' = [speech EXCEPT ![i].outcome = outcome,
                                ![i].played = ~IsNull(generateSpeech(outcome))]
    /\ console' = (IF outcome = "reject" THEN console \cup {"TTS Error"} ELSE console)
    /\ IF view = "VisualDictView"
       THEN /\ isTTSLoading' = FALSE
            /\ UNCHANGED messages
       ELSE /\ messages' = SetLoadingAudio(messages, speech[i].msg, FALSE)
            /\ UNCHANGED isTTSLoading
    /\ requests' = (IF outcome = "reject"
                     THEN AfterFailure(requests, "speech", i) ELSE requests)
    /\ lastOp' = RemoteOp
    /\ UNCHANGED <<extVars, view, word, card, now, isLoading, alerts, submits,
                   isRecording, pronunciationResult, isAnalyzing, mediaRecorderRef,
                   chunksRef, timerRef, timers, input, attachment, recorders, pendingMic,
                   nStarts, nData>>
    /\ SaveEffect

(***************************************************************************)
(* ChatView: loading the stored history, and sending from the input bar.   *)
(***************************************************************************)
ImageAttachment(data) == [type |-> "image", data |-> data]

\* What localStorage can hold under 'chat_history': nothing, a text that
\* JSON.parse (or the map over its value) throws on, or a saved list.
Corrupt == [kind |-> "corrupt", value |-> <<>>]

StoredMessages ==
    {Rest(Greeting),
     Rest(UserMessage(1, "look", Some(ImageAttachment(<<1, 2, 3, 4>>)))),
     Rest(UserMessage(1, "look", Some(ImageAttachment(<<>>)))),
     Rest(UserMessage(1, "", Some(AudioAttachment(<<1>>)))),
     Rest(ModelMessage(2, "reply"))}

StoredTexts ==
    {Null, Some(Corrupt)}
    \cup {Some([kind |-> "json", value |-> q]) : q \in SeqsUpTo(StoredMessages, MaxStored)}

\* JSON.parse(savedHistory) and the map that rebuilds the messages: the
\* list, or nothing when either throws. A message read back has no
\* isLoadingAudio.
Revive(m) ==
    [id |-> m.id, role |-> m.role, text |-> m.text, isLoadingAudio |-> FALSE,
     attachment |-> m.attachment]

JsonParse(stored) ==
    IF IsNull(stored) \/ Val(stored).kind # "json" THEN Null
    ELSE Some([k \in 1..Len(Val(stored).value) |-> Revive(Val(stored).value[k])])

TextPart(text) == [kind |-> "text", text |-> text, data |-> <<>>]

InlinePart(data) == [kind |-> "inlineData", text |-> "", data |-> data]

\* The parts of a message in the API history: its text if any, its image if
\* it has data; an audio attachment is skipped.
PartsWithAudio(m) ==
    (IF m.text # "" THEN <<TextPart(m.text)>> ELSE <<>>)
    \o (IF ~IsNull(m.attachment) /\ Len(Val(m.attachment).data) > 0
        THEN <<InlinePart(Val(m.attachment).data)>> ELSE <<>>)

Parts(m) ==
    (IF m.text # "" THEN <<TextPart(m.text)>> ELSE <<>>)
    \o (IF /\ ~IsNull(m.attachment)
           /\ Len(Val(m.attachment).data) > 0
           /\ Val(m.attachment).type = "image"
        THEN <<InlinePart(Val(m.attachment).data)>> ELSE <<>>)

\* initialMessages.filter(m => m.id !== 'init').map(...)
RECURSIVE ApiHistory(_)
ApiHistory(msgs) ==
    IF msgs = <<>> THEN <<>>
    ELSE IF Head(msgs).id = Greeting.id THEN ApiHistory(Tail(msgs))
    ELSE <<[role |-> Head(msgs).role, parts |-> Parts(Head(msgs))]>> \o ApiHistory(Tail(msgs))

\* The view is mounted and its first re-render is done.
Mounted == ~IsNull(session) /\ IsNull(staged)

\* The effects of the first render: the stored history is loaded, the chat
\* session is created with it and setMessages is called; the save effect
\* runs with the messages of this render.
MountEffects ==
    /\ view = "ChatView"
    /\ IsNull(session)
    /\ LET parsed == JsonParse(storage)
           initialMessages == IF IsNull(parsed) THEN <<>> ELSE Val(parsed)
       IN  /\ session' = Some(ApiHistory(initialMessages))
           /\ staged' = Some(IF Len(initialMessages) = 0 THEN <<Greeting>>
                             ELSE initialMessages)
           /\ console' = (IF ~IsNull(storage) /\ IsNull(parsed)
                          THEN console \cup {"Failed to parse chat history"} ELSE console)
    /\ storage' = SaveRender(messages, storage)
    /\ lastOp' = Op("mount", 0, 0)
    /\ UNCHANGED <<sends, lesson, generates, quizVars, audio, requests, view, card, now, isLoading,
                   alerts, remoteVars, capturerVars>>

\* The re-render after the mount effect's setMessages, and its save effect.
Rerender ==
    /\ ~IsNull(staged)
    /\ messages' = Val(staged)
    /\ staged' = Null
    /\ lastOp' = Op("render", 0, 0)
    /\ UNCHANGED <<session, sends, lesson, generates, quizVars, audio, requests, view, card, now,
                   isLoading, alerts, console, remoteVars, isRecording, pronunciationResult,
                   isAnalyzing, mediaRecorderRef, chunksRef, timerRef, timers, input,
                   attachment, recorders, pendingMic, nStarts, nData>>
    /\ SaveEffect

\* setInput: the user types in the textarea.
SetInput(w) ==
    /\ view = "ChatView"
    /\ w \in InputWords
    /\ w # input
    /\ input' = w
    /\ lastOp' = Op("setInput", 0, 0)
    /\ UNCHANGED <<extVars, requests, view, card, now, isLoading, alerts, console, remoteVars,
                   isRecording, pronunciationResult, isAnalyzing, mediaRecorderRef,
                   chunksRef, timerRef, timers, messages, attachment, recorders,
                   pendingMic, nStarts, nData>>
    /\ SaveEffect

\* handleSend() from the Enter key or the send button, up to chat.sendMessage.
HandleSend ==
    /\ view = "ChatView"
    /\ ~IsNull(session)
    /\ IF Trim(input) = "" /\ IsNull(attachment)
       THEN UNCHANGED <<input, attachment, messages, isLoading, sends, requests, now>>
       ELSE /\ \E t \in ClockReads :
                /\ now' = t
                /\ messages' = Append(messages, UserMessage(t, input, attachment))
            /\ input' = ""
            /\ attachment' = Null
            /\ isLoading' = TRUE
            /\ sends' = Append(sends, [text |-> input, outcome |-> "pending"])
            /\ requests' = Append(requests, Req("chatText", Len(sends) + 1))
    /\ lastOp' = Op("send", 0, 0)
    /\ UNCHANGED <<session, staged, lesson, generates, quizVars, audio, view, card, alerts, console,
                   remoteVars, isRecording, pronunciationResult, isAnalyzing,
                   mediaRecorderRef, chunksRef, timerRef, timers, recorders, pendingMic,
                   nStarts, nData>>
    /\ SaveEffect

\* chat.sendMessage of invocation i completes: the rest of handleSend.
SendCompletes(i, response) ==
    /\ i \in 1..Len(sends)
    /\ sends[i].outcome = "pending"
    /\ sends' = [sends EXCEPT ![i].outcome = response]
    /\ \E t \in ClockReads :
        /\ now' = t
        /\ IF response = "reject"
           THEN /\ messages' = Append(messages,
                        ModelMessage(t, "Sorry, I encountered an error processing your message."))
                /\ console' = console \cup {"Chat error"}
                /\ requests' = AfterFailure(requests, "chatText", i)
           ELSE /\ messages' = Append(messages,
                        ModelMessage(t + 1,
                            IF response = "text" THEN "reply"
                            ELSE "I understood, but I don't have a text response."))
                /\ UNCHANGED <<console, requests>>
    /\ isLoading' = FALSE
    /\ lastOp' = Op("sent", i, 0)
    /\ UNCHANGED <<session, staged, lesson, generates, quizVars, audio, view, card, alerts, remoteVars,
                   isRecording, pronunciationResult, isAnalyzing, mediaRecorderRef,
                   chunksRef, timerRef, timers, input, attachment, recorders, pendingMic,
                   nStarts, nData>>
    /\ SaveEffect

\* The Effacer button, confirmed: the stored history is removed and the page
\* reloads. Every component is discarded with what it was waiting for, and
\* the application starts again on its dashboard.
ClearHistory ==
    /\ view = "ChatView"
    /\ storage' = Null
    /\ view' = "Dashboard"
    /\ messages' = <<>>
    /\ session' = Null
    /\ staged' = Null
    /\ sends' = <<>>
    /\ speech' = <<>>
    /\ requests' = <<>>
    /\ input' = ""
    /\ attachment' = Null
    /\ isLoading' = FALSE
    /\ console' = {}
    /\ lastOp' = Op("clear", 0, 0)
    /\ UNCHANGED <<lesson, generates, quizVars, audio, card, now, alerts, word, isTTSLoading, submits,
                   isRecording, pronunciationResult, isAnalyzing, mediaRecorderRef,
                   chunksRef, timerRef, timers, recorders, pendingMic, nStarts, nData>>

\* The user opens the chat from the navigation: ChatView's first render.
OpenChat ==
    /\ view = "Dashboard"
    /\ view' = "ChatView"
    /\ lastOp' = Op("init", 0, 0)
    /\ UNCHANGED <<extVars, requests, card, now, isLoading, alerts, console, remoteVars,
                   isRecording, pronunciationResult, isAnalyzing, mediaRecorderRef,
                   chunksRef, timerRef, timers, messages, input, attachment, recorders,
                   pendingMic, nStarts, nData, storage>>

(***************************************************************************)
(* LessonView: lesson generation.                                          *)
(***************************************************************************)
\* What the lesson call can do: resolve with the lesson's JSON, with no text
\* (generateLessonPlan throws), with text that is not JSON; or reject.
LessonResponses == {"lesson", "notext", "badjson", "reject"}

\* generateLessonPlan: the parsed lesson, or nothing when it throws.
Options == {"a", "b"}

Quiz == [q \in 1..MaxQuestions |-> [question |-> q, correctAnswer |-> "a"]]

generateLessonPlan(response) ==
    IF response = "lesson" THEN Some([content |-> "### Introduction", quiz |-> Quiz])
    ELSE Null

\* The object JSON.parse returns to invocation i of handleGenerate; 0 is for
\* the objects read from 'lesson_history'.
GeneratedLesson(i, data) == [generation |-> i, content |-> data.content, quiz |-> data.quiz]

\* handleGenerate up to its await; the button is disabled while isLoading.
HandleGenerate ==
    /\ view = "LessonView"
    /\ activeTab = "create"
    /\ ~isLoading
    /\ Len(generates) < MaxGenerates
    /\ isLoading' = TRUE
    /\ lesson' = Null
    /\ quizAnswers' = <<>>
    /\ showResults' = FALSE
    /\ isSaved' = FALSE
    /\ generates' = Append(generates, [outcome |-> "pending"])
    /\ requests' = Append(requests, Req("lesson", Len(generates) + 1))
    /\ lastOp' = RemoteOp
    /\ UNCHANGED <<session, staged, sends, audio, view, card, now, alerts, console, remoteVars,
                   capturerVars, activeTab, selectedTopic, history,
                   lessonStorage>>
    /\ SaveEffect

LessonCompletesKeepsLoading(i, response) ==
    /\ i \in 1..Len(generates)
    /\ generates[i].outcome = "pending"
    /\ generates' = [generates EXCEPT ![i].outcome = response]
    /\ LET data == generateLessonPlan(response) IN
       IF IsNull(data)
       THEN /\ alerts' = Append(alerts,
                    Alert("Error generating lesson. Please try again.", "handleGenerate", i))
            /\ UNCHANGED <<lesson, isLoading>>
       ELSE /\ lesson' = Some(GeneratedLesson(i, Val(data)))
            /\ isLoading' = FALSE
            /\ UNCHANGED alerts
    /\ lastOp' = RemoteOp
    /\ UNCHANGED <<session, staged, sends, audio, view, card, now, console, requests, remoteVars, capturerVars, quizVars>>
    /\ SaveEffect

\* The lesson call of invocation i completes: the rest of handleGenerate.
LessonCompletes(i, response) ==
    /\ i \in 1..Len(generates)
    /\ generates[i].outcome = "pending"
    /\ generates' = [generates EXCEPT ![i].outcome = response]
    /\ LET data == generateLessonPlan(response) IN
       IF IsNull(data)
       THEN /\ alerts' = Append(alerts,
                    Alert("Error generating lesson. Please try again.", "handleGenerate", i))
            /\ requests' = AfterFailure(requests, "lesson", i)
            /\ UNCHANGED lesson
       ELSE /\ lesson' = Some(GeneratedLesson(i, Val(data)))
            /\ UNCHANGED <<alerts, requests>>
    /\ isLoading' = FALSE
    /\ lastOp' = RemoteOp
    /\ UNCHANGED <<session, staged, sends, audio, view, card, now, console, remoteVars, capturerVars, quizVars>>
    /\ SaveEffect

(***************************************************************************)
(* LessonView: the quiz and the history of lessons done.                   *)
(***************************************************************************)
Topics == {"Travel Basics", "Job Interview"}

\* The answers given so far: the option chosen, by question index.
Answers(chosen) == {a \in [chosen -> Options] : TRUE}

\* checkAnswers' score: the questions answered with their correct answer.
Score(quiz, answers) ==
    Cardinality({q \in 1..Len(quiz) :
                    q \in DOMAIN answers /\ answers[q] = quiz[q].correctAnswer})

LessonResult(t, topic, lessonData, answers) ==
    [id |-> t, timestamp |-> t, topic |-> topic,
     score |-> Score(lessonData.quiz, answers), totalQuestions |-> Len(lessonData.quiz),
     lessonData |-> lessonData, userAnswers |-> answers]

\* What localStorage can hold under 'lesson_history': nothing, a text that
\* JSON.parse throws on, or the list saved by an earlier visit.
StoredResults ==
    {LessonResult(1, "Travel Basics",
                  GeneratedLesson(0, [content |-> "### Introduction", quiz |-> Quiz]), a) :
        a \in Answers(1..MaxQuestions)}

StoredLessonTexts ==
    {Null, Some(Corrupt)}
    \cup {Some([kind |-> "json", value |-> q]) : q \in {<<>>} \cup {<<r>> : r \in StoredResults}}

\* LessonView is opened from the navigation: its first render and its mount
\* effect, which reads the history.
OpenLesson ==
    /\ view = "Dashboard"
    /\ view' = "LessonView"
    /\ IF IsNull(lessonStorage) THEN UNCHANGED <<history, console>>
       ELSE IF Val(lessonStorage).kind = "json"
       THEN history' = Val(lessonStorage).value /\ UNCHANGED console
       ELSE console' = console \cup {"Failed to parse history"} /\ UNCHANGED history
    /\ lastOp' = Op("open", 0, 0)
    /\ UNCHANGED <<session, staged, sends, lesson, generates, audio, requests, card, now,
                   isLoading, alerts, remoteVars, capturerVars, storage, activeTab,
                   selectedTopic, quizAnswers, showResults, isSaved,
                   lessonStorage>>

\* What the quiz handlers leave alone.
QuizFrame ==
    UNCHANGED <<session, staged, sends, generates, audio, requests, view, card, isLoading,
                alerts, console, remoteVars, capturerVars, storage>>

\* The two tab buttons.
SetActiveTab(tab) ==
    /\ view = "LessonView"
    /\ tab \in {"create", "history"}
    /\ tab # activeTab
    /\ activeTab' = tab
    /\ lastOp' = Op("quiz", 0, 0)
    /\ UNCHANGED <<lesson, now, selectedTopic, quizAnswers, showResults,
                   isSaved, history, lessonStorage>>
    /\ QuizFrame

\* The topic select of the create tab.
SetSelectedTopic(topic) ==
    /\ view = "LessonView"
    /\ activeTab = "create"
    /\ topic \in Topics
    /\ topic # selectedTopic
    /\ selectedTopic' = topic
    /\ lastOp' = Op("quiz", 0, 0)
    /\ UNCHANGED <<lesson, now, activeTab, quizAnswers, showResults, isSaved,
                   history, lessonStorage>>
    /\ QuizFrame

\* handleAnswer, from an option button: the buttons are disabled once the
\* results are shown.
HandleAnswer(q, option) ==
    /\ view = "LessonView"
    /\ activeTab = "create"
    /\ ~IsNull(lesson)
    /\ q \in 1..Len(Val(lesson).quiz)
    /\ option \in Options
    /\ ~showResults
    /\ quizAnswers' = [k \in DOMAIN quizAnswers \cup {q} |->
                          IF k = q THEN option ELSE quizAnswers[k]]
    /\ lastOp' = Op("quiz", 0, 0)
    /\ UNCHANGED <<lesson, now, activeTab, selectedTopic, showResults, isSaved,
                   history, lessonStorage>>
    /\ QuizFrame

\* One of the two buttons that call checkAnswers is rendered: 'check' once
\* every question is answered, 'save' while the results are shown unsaved.
CheckButton ==
    /\ view = "LessonView"
    /\ activeTab = "create"
    /\ ~IsNull(lesson)
    /\ \/ ~showResults /\ Cardinality(DOMAIN quizAnswers) = Len(Val(lesson).quiz)
       \/ showResults /\ ~isSaved

\* checkAnswers without its setIsSaved(true).
CheckAnswersForgetsSaved ==
    /\ CheckButton
    /\ showResults' = TRUE
    /\ IF ~IsNull(lesson) /\ ~isSaved
       THEN \E t \in ClockReads :
                /\ now' = t
                /\ LET newResult == LessonResult(t, selectedTopic, Val(lesson), quizAnswers)
                       updatedHistory == <<newResult>> \o history
                   IN  /\ history' = updatedHistory
                       /\ lessonStorage' = Some([kind |-> "json", value |-> updatedHistory])
       ELSE UNCHANGED <<now, history, lessonStorage>>
    /\ lastOp' = Op("check", 0, 0)
    /\ UNCHANGED <<lesson, activeTab, selectedTopic, quizAnswers, isSaved>>
    /\ QuizFrame

\* checkAnswers: the results are shown, and the lesson is put in the history
\* unless it is there already.
CheckAnswers ==
    /\ CheckButton
    /\ showResults' = TRUE
    /\ IF ~IsNull(lesson) /\ ~isSaved
       THEN \E t \in ClockReads :
                /\ now' = t
                /\ LET newResult == LessonResult(t, selectedTopic, Val(lesson), quizAnswers)
                       updatedHistory == <<newResult>> \o history
                   IN  /\ history' = updatedHistory
                       /\ lessonStorage' = Some([kind |-> "json", value |-> updatedHistory])
                       /\ isSaved' = TRUE
       ELSE UNCHANGED <<now, history, lessonStorage, isSaved>>
    /\ lastOp' = Op("check", 0, 0)
    /\ UNCHANGED <<lesson, activeTab, selectedTopic, quizAnswers>>
    /\ QuizFrame

\* loadHistoryItem without its setIsSaved(true).
LoadHistoryItemUnsaved(k) ==
    /\ view = "LessonView"
    /\ activeTab = "history"
    /\ k \in 1..Len(history)
    /\ lesson' = Some(history[k].lessonData)
    /\ quizAnswers' = history[k].userAnswers
    /\ selectedTopic' = history[k].topic
    /\ showResults' = TRUE
    /\ activeTab' = "create"
    /\ lastOp' = Op("load", k, 0)
    /\ UNCHANGED <<now, isSaved, history, lessonStorage>>
    /\ QuizFrame

\* loadHistoryItem, from a row of the history tab.
LoadHistoryItem(k) ==
    /\ view = "LessonView"
    /\ activeTab = "history"
    /\ k \in 1..Len(history)
    /\ lesson' = Some(history[k].lessonData)
    /\ quizAnswers' = history[k].userAnswers
    /\ selectedTopic' = history[k].topic
    /\ showResults' = TRUE
    /\ isSaved' = TRUE
    /\ activeTab' = "create"
    /\ lastOp' = Op("load", k, 0)
    /\ UNCHANGED <<now, history, lessonStorage>>
    /\ QuizFrame

\* deleteHistoryItem, from the bin of a row: every result with the row's id goes.
DeleteHistoryItem(k) ==
    /\ view = "LessonView"
    /\ activeTab = "history"
    /\ k \in 1..Len(history)
    /\ LET updated == SelectSeq(history, LAMBDA h : h.id # history[k].id)
       IN  /\ history' = updated
           /\ lessonStorage' = Some([kind |-> "json", value |-> updated])
    /\ lastOp' = Op("delete", k, 0)
    /\ UNCHANGED <<lesson, now, activeTab, selectedTopic, quizAnswers,
                   showResults, isSaved>>
    /\ QuizFrame

(***************************************************************************)
(* The capturer's specification: one view is mounted; VisualDictView holds *)
(* a card, without which it renders no record button.                      *)
(***************************************************************************)
InitRest(v) ==
    /\ view = v
    /\ word = ""
    /\ isLoading = FALSE
    /\ isTTSLoading = FALSE
    /\ isRecording = FALSE
    /\ pronunciationResult = Null
    /\ isAnalyzing = FALSE
    /\ mediaRecorderRef = 0
    /\ chunksRef = <<>>
    /\ timerRef = 0
    /\ timers = {}
    /\ input = ""
    /\ attachment = Null
    /\ recorders = <<>>
    /\ pendingMic = <<>>
    /\ submits = <<>>
    /\ speech = <<>>
    /\ alerts = <<>>
    /\ console = {}
    /\ nStarts = 0
    /\ nData = 0
    /\ now = 1
    /\ requests = <<>>
    /\ staged = Null
    /\ sends = <<>>
    /\ lesson = Null
    /\ generates = <<>>
    /\ activeTab = "create"
    /\ selectedTopic = "Travel Basics"
    /\ quizAnswers = <<>>
    /\ showResults = FALSE
    /\ isSaved = FALSE
    /\ history = <<>>
    /\ lastOp = Op("init", 0, 0)

\* View v once mounted, with nothing in localStorage before.
InitView(v) ==
    /\ InitRest(v)
    /\ messages = (IF v = "ChatView" THEN <<Greeting>> ELSE <<>>)
    /\ storage = (IF v = "ChatView" THEN Some(Stringify(<<Greeting>>)) ELSE Null)
    /\ session = (IF v = "ChatView" THEN Some(<<>>) ELSE Null)
    /\ lessonStorage = Null

InitCommon ==
    /\ \E v \in Views : InitView(v)
    /\ audio = NoAudio

Init ==
    /\ InitCommon
    /\ card = (IF view = "VisualDictView"
               THEN Some(VocabCard("cat", "example", "data:image/png;base64", "definition"))
               ELSE Null)

\* The capturer, with at most maxStarts calls of startRecording.
CaptureNext(maxStarts) ==
    \/ (nStarts < maxStarts /\ StartRecording)
    \/ \E i \in 1..Len(pendingMic) : GrantMic(i)
    \/ \E i \in 1..Len(pendingMic) : DenyMic(i)
    \/ \E r \in 1..Len(recorders), size \in ChunkSizes : DataAvailable(r, size)
    \/ StopRecording
    \/ \E r \in 1..Len(recorders), size \in ChunkSizes : FireStop(r, size)

\* The continuations of the onstop handlers.
JobsNext ==
    \/ \E r \in 1..Len(recorders) : BlobEncoded(r)
    \/ \E r \in 1..Len(recorders), response \in ScoreResponses : PronunciationCompletes(r, response)
    \/ \E r \in 1..Len(recorders), response \in ChatResponses : ChatCompletes(r, response)

\* The capturer: start, stop and the recorder's events up to onstop's blob.
Next == CaptureNext(MaxStarts)

Spec == Init /\ [][Next]_vars

\* The capturer together with what its onstop handlers go on to do.
NextJobs == CaptureNext(MaxJobStarts) \/ JobsNext

SpecJobs == Init /\ [][NextJobs]_vars

\* The remote operations of a freshly mounted view: the vocabulary card and
\* speech synthesis.
InitRemote ==
    /\ InitCommon
    /\ card = Null

NextRemote ==
    \/ \E w \in InputWords : SetWord(w)
    \/ HandleSubmit
    \/ \E i \in 1..Len(submits), outcome \in DefOutcomes : DefCompletes(i, outcome)
    \/ \E i \in 1..Len(submits), outcome \in ImgOutcomes : ImgCompletes(i, outcome)
    \/ (speech = <<>> /\ HandleSpeak)
    \/ (speech = <<>> /\ \E m \in 1..Len(messages) : HandlePlayAudio(m))
    \/ \E i \in 1..Len(speech), outcome \in SpeechOutcomes : SpeechCompletes(i, outcome)

SpecRemote == InitRemote /\ [][NextRemote]_vars

\* Every operation of the three views that issues a remote request, from a
\* freshly mounted view, with at most MaxOps operations started by the user.
Started == Len(submits) + Len(speech) + Len(generates) + nStarts

InitOps ==
    /\ \E v \in Views \cup {"LessonView"} : InitView(v)
    /\ card = Null
    /\ audio = NoAudio

UserOps ==
    \/ HandleSubmit
    \/ HandleSpeak
    \/ \E m \in 1..Len(messages) : HandlePlayAudio(m)
    \/ HandleGenerate
    \/ (view \in Views /\ nStarts = 0 /\ StartRecording)

Completions ==
    \/ \E i \in 1..Len(submits), outcome \in DefOutcomes : DefCompletes(i, outcome)
    \/ \E i \in 1..Len(submits), outcome \in ImgOutcomes : ImgCompletes(i, outcome)
    \/ \E i \in 1..Len(speech), outcome \in SpeechOutcomes : SpeechCompletes(i, outcome)
    \/ \E i \in 1..Len(generates), response \in LessonResponses : LessonCompletes(i, response)
    \/ \E i \in 1..Len(pendingMic) : GrantMic(i)
    \/ \E r \in 1..Len(recorders) : FireStop(r, MaxChunkSize)
    \/ JobsNext

NextOps ==
    \/ (Started < MaxOps /\ UserOps)
    \/ \E w \in Words : SetWord(w)
    \/ StopRecording
    \/ Completions

SpecOps == InitOps /\ [][NextOps]_vars

\* The same, where every call that is pending eventually completes.
SpecOpsFair == SpecOps /\ WF_vars(Completions)

\* The audio pipeline on every input: encode, decode, decode as PCM.
InitAudio ==
    /\ InitView("VisualDictView")
    /\ card = Null
    /\ \E b \in AudioInputs, c \in 0..MaxChannels :
          audio = [NoAudio EXCEPT !.stage = "blob", !.bytes = b, !.channelCount = c]

NextAudio == EncodeAudio \/ DecodeAudio \/ DecodePcm

SpecAudio == InitAudio /\ [][NextAudio]_vars

\* ChatView from its first render, over what localStorage may hold: the
\* mount, then sends from the input bar and one message played aloud.
InitChat ==
    /\ InitRest("ChatView")
    /\ card = Null
    /\ audio = NoAudio
    /\ messages = <<>>
    /\ session = Null
    /\ storage \in StoredTexts
    /\ lessonStorage = Null

\* There is room for one more exchange: a user message and its reply, after
\* the replies still to come.
PendingSends == Cardinality({i \in 1..Len(sends) : sends[i].outcome = "pending"})

RoomToSend == Len(messages) + PendingSends + 2 <= MaxMessages

NextChat ==
    \/ MountEffects
    \/ Rerender
    \/ (Mounted /\ RoomToSend /\ \E w \in InputWords : SetInput(w))
    \/ (Mounted /\ RoomToSend /\ HandleSend)
    \/ \E i \in 1..Len(sends), response \in ChatResponses : SendCompletes(i, response)
    \/ (Mounted /\ speech = <<>> /\ \E m \in 1..Len(messages) : HandlePlayAudio(m))
    \/ (Mounted /\ ClearHistory)
    \/ OpenChat
    \/ \E i \in 1..Len(speech), outcome \in SpeechOutcomes : SpeechCompletes(i, outcome)

SpecChat == InitChat /\ [][NextChat]_vars

\* LessonView from the dashboard, over what localStorage may hold: lessons
\* are generated, answered, checked, and reviewed from the history.
InitLesson ==
    /\ InitRest("Dashboard")
    /\ card = Null
    /\ audio = NoAudio
    /\ messages = <<>>
    /\ session = Null
    /\ storage = Null
    /\ lessonStorage \in StoredLessonTexts

NextLesson ==
    \/ OpenLesson
    \/ \E tab \in {"create", "history"} : SetActiveTab(tab)
    \/ \E topic \in Topics : SetSelectedTopic(topic)
    \/ (Len(generates) < MaxLessons /\ HandleGenerate)
    \/ \E i \in 1..Len(generates), response \in LessonResponses : LessonCompletes(i, response)
    \/ \E q \in 1..MaxQuestions, option \in Options : HandleAnswer(q, option)
    \/ CheckAnswers
    \/ \E k \in 1..Len(history) : LoadHistoryItem(k)
    \/ \E k \in 1..Len(history) : DeleteHistoryItem(k)

SpecLesson == InitLesson /\ [][NextLesson]_vars

\* ChatView's recordings, sent or cancelled, and the sends they make.
InitCancel ==
    /\ Init
    /\ view = "ChatView"

NextCancel ==
    \/ (nStarts < MaxJobStarts /\ StartRecording)
    \/ \E i \in 1..Len(pendingMic) : GrantMic(i)
    \/ \E r \in 1..Len(recorders), size \in ChunkSizes : DataAvailable(r, size)
    \/ (isRecording /\ StopRecording)
    \/ CancelRecording
    \/ \E r \in 1..Len(recorders), size \in ChunkSizes : FireStop(r, size)
    \/ \E r \in 1..Len(recorders) : BlobEncoded(r)
    \/ \E r \in 1..Len(recorders), response \in ChatResponses : ChatCompletes(r, response)

SpecCancel == InitCancel /\ [][NextCancel]_vars

\* ChatView's sends: from the input bar (the Enter key calls handleSend
\* whatever isLoading is) and from the onstop of one recording.
InitSends ==
    /\ InitView("ChatView")
    /\ card = Null
    /\ audio = NoAudio

ChatRequests == Len(sends) + nStarts + Len(speech)

NextSends ==
    \/ (ChatRequests < MaxOps /\ \E w \in Words : SetInput(w))
    \/ (ChatRequests < MaxOps /\ HandleSend)
    \/ \E i \in 1..Len(sends), response \in ChatResponses : SendCompletes(i, response)
    \/ (ChatRequests < MaxOps /\ nStarts = 0 /\ StartRecording)
    \/ \E i \in 1..Len(pendingMic) : GrantMic(i)
    \/ (isRecording /\ StopRecording)
    \/ \E r \in 1..Len(recorders) : FireStop(r, MaxChunkSize)
    \/ \E r \in 1..Len(recorders) : BlobEncoded(r)
    \/ \E r \in 1..Len(recorders), response \in ChatResponses : ChatCompletes(r, response)
    \/ (ChatRequests < MaxOps /\ \E m \in 1..Len(messages) : HandlePlayAudio(m))
    \/ \E i \in 1..Len(speech), outcome \in SpeechOutcomes : SpeechCompletes(i, outcome)

SpecSends == InitSends /\ [][NextSends]_vars

\* VisualDictView with the card of an earlier word shown: the word is said
\* and analysed while another word is looked up.
InitCards ==
    /\ InitView("VisualDictView")
    /\ card = Some(VocabCard("dog", "example", "data:image/png;base64", "definition"))
    /\ audio = NoAudio

NextCards ==
    \/ (Started < MaxOps /\ \E w \in Words : SetWord(w))
    \/ (Started < MaxOps /\ HandleSubmit)
    \/ \E i \in 1..Len(submits), outcome \in DefOutcomes : DefCompletes(i, outcome)
    \/ \E i \in 1..Len(submits), outcome \in ImgOutcomes : ImgCompletes(i, outcome)
    \/ (Started < MaxOps /\ nStarts < MaxJobStarts /\ ~IsNull(card) /\ StartRecording)
    \/ \E i \in 1..Len(pendingMic) : GrantMic(i)
    \/ (isRecording /\ StopRecording)
    \/ \E r \in 1..Len(recorders) : FireStop(r, MaxChunkSize)
    \/ \E r \in 1..Len(recorders) : BlobEncoded(r)
    \/ \E r \in 1..Len(recorders), response \in ScoreResponses :
            PronunciationCompletes(r, response)

SpecCards == InitCards /\ [][NextCards]_vars

(***************************************************************************)
(* Properties of the capturer.                                             *)
(***************************************************************************)
Recording == {r \in 1..Len(recorders) : recorders[r].state = "recording"}

LiveTracks == {r \in 1..Len(recorders) : recorders[r].trackLive}

\* Everything but lastOp.
frame == <<view, word, card, isLoading, isTTSLoading, isRecording, pronunciationResult,
           isAnalyzing, mediaRecorderRef, chunksRef, timerRef, timers, messages, input,
           attachment, recorders, pendingMic, submits, speech, alerts, console,
           nStarts, nData, now, requests, storage, session, staged, sends, lesson,
           generates, quizVars, audio>>

\* C1: only one RecordingSession is active at a time per capturer: two
\* recorders never record together and two input streams are never live
\* together, whatever the order of start(), stop() and the microphone's answers.
C1_OneSessionAtATime ==
    /\ Cardinality(Recording) <= 1
    /\ Cardinality(LiveTracks) <= 1

\* C2: stop() while the capturer is Idle (the recording flag is false) is a
\* no-op: nothing but the record of the call changes -- no recorder, no
\* stream, no accumulator, no flag, no blob, no message, no analysis, no error.
C2_StopWhileIdleIsNoOp ==
    [][(lastOp'.op = "stop" /\ ~isRecording) => UNCHANGED frame]_vars

\* stop() was called while Idle, after a session that left chunks behind.
C2_Witness ==
    /\ lastOp.op = "stop" /\ lastOp.arg = 0
    /\ ~isRecording
    /\ chunksRef # <<>>
    /\ \E r \in 1..Len(recorders) : ~IsNull(recorders[r].blob)

\* C3: whenever the capturer is Idle, no microphone track it acquired is live.
C3_IdleMeansReleased ==
    ~isRecording => LiveTracks = {}

\* C4: when a recorder is stopped and no non-empty data-available event came
\* between its start and its onstop, onstop builds the empty AudioBlob and
\* reports no error.
C4_ImmediateStopGivesEmptyBlob ==
    [][\A r \in 1..Len(recorders') :
          (lastOp'.op = "onstop" /\ lastOp'.rec = r /\ recorders'[r].heard = 0)
          => /\ recorders'[r].blob = Some(<<>>)
             /\ recorders'[r].job = "encoding"
             /\ alerts' = alerts
             /\ console' = console]_vars

\* A second session was stopped at once, after a first one that had data.
C4_Witness ==
    /\ lastOp.op = "onstop" /\ lastOp.rec = 2
    /\ recorders[2].heard = 0
    /\ recorders[2].blob = Some(<<>>)
    /\ ~IsNull(recorders[1].blob) /\ Val(recorders[1].blob) # <<>>

\* C5: right after a successful start() the accumulator is empty, the
\* recording flag is set and the new recorder, held in mediaRecorderRef, records.
C5_StartResetsAndRecords ==
    lastOp.op = "grant" =>
        /\ chunksRef = <<>>
        /\ isRecording
        /\ mediaRecorderRef = lastOp.rec
        /\ mediaRecorderRef = Len(recorders)
        /\ recorders[mediaRecorderRef].state = "recording"

\* A start succeeded after a session whose chunks were in the accumulator.
C5_Witness ==
    /\ lastOp.op = "grant" /\ lastOp.rec = 2
    /\ isRecording
    /\ ~IsNull(recorders[1].blob) /\ Val(recorders[1].blob) # <<>>

StampsIncrease(chunks) ==
    \A j, k \in 1..Len(chunks) : j < k => chunks[j].stamp < chunks[k].stamp

\* C6: a data-available event (timeslice or final) appends its chunk at the
\* end of the accumulator if the chunk is non-empty and leaves the
\* accumulator alone otherwise; the accumulator holds no empty chunk and
\* keeps the chunks in arrival order.
C6_AppendIffNonEmpty ==
    [][/\ lastOp'.op \in {"data", "onstop"} =>
            chunksRef' = IF lastOp'.arg > 0
                         THEN Append(chunksRef, Chunk(lastOp'.rec, nData', lastOp'.arg))
                         ELSE chunksRef
       /\ \A k \in 1..Len(chunksRef') : ChunkSize(chunksRef'[k]) > 0
       /\ StampsIncrease(chunksRef')]_vars

\* An empty chunk arrived after two non-empty ones and was not appended.
C6_Witness ==
    /\ lastOp.op \in {"data", "onstop"} /\ lastOp.arg = 0
    /\ Len(chunksRef) = 2
    /\ nData = 3

\* C7: when getUserMedia rejects, the failure is reported (console.error in
\* VisualDictView, console.error and an alert in ChatView) and the capturer
\* is left as it was: the flag, the recorders and their streams, the
\* recorder reference and the accumulator do not change.
C7_DeniedStartStaysIdle ==
    [][lastOp'.op = "deny" =>
          /\ isRecording' = isRecording
          /\ recorders' = recorders
          /\ mediaRecorderRef' = mediaRecorderRef
          /\ chunksRef' = chunksRef
          /\ timers' = timers
          /\ IF view = "VisualDictView"
             THEN "Mic error" \in console'
             ELSE alerts' = Append(alerts,
                        Alert("Could not access microphone.", "startRecording", 0))]_vars

\* A start was denied and the capturer is Idle with no recorder and no stream.
C7_Witness ==
    /\ lastOp.op = "deny"
    /\ ~isRecording
    /\ recorders = <<>>
    /\ mediaRecorderRef = 0

(***************************************************************************)
(* Properties of the remote operations.                                    *)
(***************************************************************************)
DefSucceeded(o) == o = "full"
DefFailed(o) == o \in {"reject", "notext", "badjson"}
ImgSucceeded(o) == o = "image"
ImgFailed(o) == o \in {"reject", "noimage", "badshape"}

\* Invocation s of the joined operation has seen both of its calls complete.
BothCompleted(s) == s.def # "pending" /\ s.img # "pending"

\* An alert raised by operation `by` for its invocation i.
Surfaced(by, i) == \E k \in 1..Len(alerts) : alerts[k].by = by /\ alerts[k].id = i

\* C8: in the joined visual-vocabulary operation, when one of the two calls
\* fails and the other succeeds, the operation as a whole fails: no card is
\* returned for that invocation and the view's card stays null.
C8_OneFailureFailsTheJoin ==
    \A i \in 1..Len(submits) :
        LET s == submits[i]
        IN  ((DefFailed(s.def) /\ ImgSucceeded(s.img)) \/ (DefSucceeded(s.def) /\ ImgFailed(s.img)))
            => /\ s.result = "failed"
               /\ IsNull(s.card)
               /\ (i = Len(submits) => IsNull(card))

\* C9: the card of an invocation is built only after both of its calls have
\* completed, and what the invocation ends with (a card, and which card, or a
\* failure) is determined by the word and the two calls' outcomes alone,
\* whichever call completed first.
C9_JoinWaitsForBothAndIgnoresOrder ==
    \A i \in 1..Len(submits) :
        LET s == submits[i]
        IN  /\ s.result = "card" => /\ BothCompleted(s)
                                    /\ ~IsNull(s.card)
                                    /\ s.card = BuildCard(s.word, s.def, s.img)
            /\ s.result # "card" => IsNull(s.card)
            /\ BothCompleted(s) => s.result # "pending"
            /\ \A j \in 1..Len(submits) :
                 LET t == submits[j]
                 IN  (/\ BothCompleted(s) /\ BothCompleted(t)
                      /\ s.word = t.word /\ s.def = t.def /\ s.img = t.img)
                     => s.result = t.result /\ s.card = t.card

\* Two invocations for the same word, with the same outcomes of their calls,
\* completed in opposite orders, and both produced the card.
C9_Witness ==
    /\ Len(submits) = 2
    /\ submits[1].word = submits[2].word
    /\ submits[1].def = "full" /\ submits[2].def = "full"
    /\ submits[1].img = "image" /\ submits[2].img = "image"
    /\ submits[1].first = "def" /\ submits[2].first = "img"
    /\ submits[1].result = "card" /\ submits[2].result = "card"
    /\ card = submits[2].card

\* C10: a remote call that fails is surfaced to the user by the operation
\* that issued it: an alert is raised for that invocation.
C10_RemoteFailuresAreSurfaced ==
    /\ \A i \in 1..Len(submits) :
         PromiseAll(submits[i].def, submits[i].img) = "rejected" => Surfaced("handleSubmit", i)
    /\ \A i \in 1..Len(speech) :
         speech[i].outcome = "reject"
         => Surfaced("handleSpeak", i) \/ Surfaced("handlePlayAudio", i)

(***************************************************************************)
(* Properties of the operations as a whole.                                *)
(***************************************************************************)
\* The invocations of the operation that issues requests of this kind.
Invocations(kind) ==
    IF kind \in {"definition", "image"} THEN 1..Len(submits)
    ELSE IF kind = "speech" THEN 1..Len(speech)
    ELSE IF kind = "lesson" THEN 1..Len(generates)
    ELSE IF kind = "chatText" THEN 1..Len(sends)
    ELSE {r \in 1..Len(recorders) : recorders[r].job \in {"scoring", "sending", "done", "failed"}}

\* C11: nothing is retried: every remote request belongs to an invocation
\* the user started, and no invocation issues a request of the same kind
\* twice, whether its request succeeded or failed.
C11_NoAutomaticRetry ==
    /\ \A k \in 1..Len(requests) : requests[k].id \in Invocations(requests[k].kind)
    /\ \A j, k \in 1..Len(requests) : j # k => requests[j] # requests[k]

\* A recording was stopped, the request its onstop issued has failed, and it
\* is the only request there is.
C11_Witness ==
    /\ Len(requests) = 1
    /\ requests[1].kind \in {"pronunciation", "chat"}
    /\ recorders[requests[1].id].job = "failed"

AnyLoadingAudio == \E m \in 1..Len(messages) : messages[m].isLoadingAudio

\* No loading flag is set.
NoneLoading == ~isLoading /\ ~isTTSLoading /\ ~isAnalyzing /\ ~AnyLoadingAudio

\* A step in which a failure is handled: a catch block alerts or logs.
FailureStep == alerts' # alerts \/ console' # console

Decoded == audio.stage \in {"bytes", "buffer", "error"}

RECURSIVE TotalSamples(_)
TotalSamples(channels) ==
    IF channels = <<>> THEN 0 ELSE Len(Head(channels)) + TotalSamples(Tail(channels))

\* C13: the text encode gives for any bytes, the empty sequence included, is
\* well-formed base64, and decode gives back exactly those bytes.
C13_Base64RoundTrip ==
    /\ audio.stage # "none" =>
          LET text == Encode(audio.bytes)
          IN  /\ Len(text) = 4 * ((Len(audio.bytes) + 2) \div 3)
              /\ \A k \in 1..Len(text) : text[k] \in 0..64
    /\ Decoded => audio.decoded = Some(audio.bytes)

\* Two bytes went through one padded group and came back.
C13_Witness ==
    /\ audio.stage = "bytes"
    /\ audio.bytes = <<255, 128>>
    /\ audio.text[4] = Pad
    /\ audio.decoded = Some(<<255, 128>>)

\* C14: the decoder reads floor(len / 2) samples, those of the even-length
\* prefix of the stream: a trailing odd byte gives no sample, and the buffer
\* holds exactly that many samples over its channels.
C14_SampleCountIsHalfTheBytes ==
    /\ Len(Samples(audio.bytes)) = Len(audio.bytes) \div 2
    /\ Samples(audio.bytes) = Samples(SubSeq(audio.bytes, 1, 2 * (Len(audio.bytes) \div 2)))
    /\ audio.stage = "buffer" =>
          TotalSamples(Val(audio.buffer).channels) = Len(Val(audio.decoded)) \div 2

\* Three bytes were decoded to one sample, the one of the first two bytes.
C14_Witness ==
    /\ audio.stage = "buffer"
    /\ audio.bytes = <<255, 127, 1>>
    /\ audio.channelCount = 1
    /\ Val(audio.buffer).channels = << <<Sample(32767)>> >>

\* C15: every sample is v / 32768 for the little-endian signed value v of
\* its byte pair, so it lies in [-1, 1): 0x00 0x80 gives -32768 / 32768 and
\* 0xFF 0x7F gives 32767 / 32768.
C15_SamplesAreSignedSixteenths ==
    audio.stage = "buffer" =>
        LET bytes == Val(audio.decoded)
            mono == Samples(bytes)
        IN  /\ \A i \in 1..Len(mono) :
                 LET lo == bytes[2 * i - 1]
                     hi == bytes[2 * i]
                 IN  /\ mono[i].den = 32768
                     /\ mono[i].num = (IF hi < 128 THEN 256 * hi + lo
                                       ELSE 256 * hi + lo - 65536)
                     /\ -mono[i].den <= mono[i].num /\ mono[i].num < mono[i].den
            /\ \A ch \in 1..audio.channelCount :
                 \A k \in 1..Len(Val(audio.buffer).channels[ch]) :
                    LET x == Val(audio.buffer).channels[ch][k]
                    IN  x.den = 32768 /\ -x.den <= x.num /\ x.num < x.den
            /\ audio.channelCount = 1 => Val(audio.buffer).channels[1] = mono

\* The two boundary pairs were decoded: exactly -1 and 32767 / 32768.
C15_Witness ==
    /\ audio.stage = "buffer"
    /\ audio.channelCount = 1
    /\ Val(audio.decoded) = <<0, 128, 255, 127>>
    /\ Val(audio.buffer).channels[1] = <<[num |-> -32768, den |-> 32768],
                                         [num |-> 32767, den |-> 32768]>>

\* C16: with c channels, sample i of the stream (from 0) is sample
\* floor(i / c) of channel i mod c; with one channel the channel is the
\* stream.
C16_ChannelsAreInterleaved ==
    audio.stage = "buffer" =>
        LET c == audio.channelCount
            stream == Samples(Val(audio.decoded))
            channels == Val(audio.buffer).channels
        IN  /\ Len(channels) = c
            /\ TotalSamples(channels) = Len(stream)
            /\ \A i \in 0..(Len(stream) - 1) :
                 channels[(i % c) + 1][(i \div c) + 1] = stream[i + 1]
            /\ c = 1 => channels[1] = stream

\* A stream of four different samples was split over two channels.
C16_Witness ==
    /\ audio.stage = "buffer"
    /\ audio.channelCount = 2
    /\ Val(audio.decoded) = PcmBytes(<<-32768, -1, 0, 32767>>)
    /\ Val(audio.buffer).channels =
          << <<Sample(-32768), Sample(0)>>, <<Sample(-1), Sample(32767)>> >>

\* C17: with channelCount < 1 or with no bytes, decodeAudioData fails and
\* there is no SampleBuffer.
C17_NoChannelOrNoBytesFails ==
    (audio.stage \in {"buffer", "error"}
        /\ (audio.channelCount < 1 \/ Len(Val(audio.decoded)) = 0))
    => audio.stage = "error" /\ IsNull(audio.buffer)

\* Bytes were given with no channel to put them in, and decoding failed.
C17_Witness ==
    /\ audio.stage = "error"
    /\ audio.channelCount = 0
    /\ Len(audio.bytes) = 4
    /\ IsNull(audio.buffer)

(***************************************************************************)
(* Properties of the results and of the chat history.                      *)
(***************************************************************************)
\* C18: the pronunciation result held by the view has a score from 0 to 10.
C18_ScoreIsFromZeroToTen ==
    ~IsNull(pronunciationResult) => Val(pronunciationResult).score \in 0..10

\* What is stored under 'chat_history' is the list msgs, message by message
\* and in order, each without its isLoadingAudio.
StoredIs(msgs) ==
    /\ ~IsNull(storage)
    /\ Val(storage).kind = "json"
    /\ Len(Val(storage).value) = Len(msgs)
    /\ \A k \in 1..Len(msgs) :
        LET saved == Val(storage).value[k]
        IN  /\ "isLoadingAudio" \notin DOMAIN saved
            /\ saved.id = msgs[k].id
            /\ saved.role = msgs[k].role
            /\ saved.text = msgs[k].text
            /\ saved.attachment = msgs[k].attachment

\* C19: whenever messages is not empty, the stored chat_history is messages
\* in the same order without the isLoadingAudio of any message; while
\* messages is empty nothing is written, so what is stored after a step is
\* what was stored before it (Effacer removes it, and writes nothing).
C19_StoredHistoryFollowsMessages ==
    /\ [](Len(messages) > 0 => StoredIs(messages))
    /\ [][(Len(messages') = 0 /\ ~IsNull(storage')) => storage' = storage]_vars

\* A message is being read aloud, after an exchange, and the stored history
\* has all the messages without the flag.
C19_Witness ==
    /\ Len(messages) >= 3
    /\ \E k \in 1..Len(messages) : messages[k].isLoadingAudio
    /\ StoredIs(messages)

\* The stored list the mount effect reads: empty when nothing is stored or
\* the text does not parse.
StoredList ==
    IF IsNull(storage) \/ Val(storage).kind # "json" THEN <<>> ELSE Val(storage).value

\* contents is built from the list msgs: one entry for each message other
\* than the greeting, in order, with the message's role, its text if it has
\* one, its image if the image has data, and nothing else.
BuiltFrom(contents, msgs) ==
    LET kept == SelectSeq(msgs, LAMBDA m : m.id # Greeting.id)
    IN  /\ Len(contents) = Len(kept)
        /\ \A k \in 1..Len(kept) :
            LET m == kept[k]
                parts == contents[k].parts
                image == /\ ~IsNull(m.attachment)
                         /\ Val(m.attachment).type = "image"
                         /\ Len(Val(m.attachment).data) > 0
            IN  /\ contents[k].role = m.role
                /\ Len(parts) = (IF m.text # "" THEN 1 ELSE 0) + (IF image THEN 1 ELSE 0)
                /\ m.text # "" => parts[1] = TextPart(m.text)
                /\ image => parts[Len(parts)] = InlinePart(Val(m.attachment).data)

\* C20: the API history the session is created with is built from the
\* stored messages, in order, without the greeting, with the images that
\* have data and without the audio; with nothing stored, or a text that does
\* not parse, the history is empty and messages becomes the greeting alone.
C20_HistoryIsBuiltFromStoredMessages ==
    /\ [][(IsNull(session) /\ ~IsNull(session'))
            => /\ BuiltFrom(Val(session'), StoredList)
               /\ (IsNull(storage) \/ Val(storage).kind # "json")
                    => session' = Some(<<>>) /\ staged' = Some(<<Greeting>>)
               /\ Len(StoredList) > 0
                    => /\ Len(Val(staged')) = Len(StoredList)
                       /\ \A k \in 1..Len(StoredList) :
                            Val(staged')[k] = Revive(StoredList[k])]_vars
    /\ [][(~IsNull(staged) /\ IsNull(staged')) => messages' = Val(staged)]_vars

\* A stored image with data and a stored voice message were loaded: the
\* history has the image after its text, and no part for the voice message.
C20_Witness ==
    /\ Mounted
    /\ Len(messages) = 2
    /\ ~IsNull(messages[2].attachment)
    /\ Val(messages[2].attachment).type = "audio"
    /\ Val(session) = << [role |-> "user",
                          parts |-> <<TextPart("look"), InlinePart(<<1, 2, 3, 4>>)>>],
                         [role |-> "user", parts |-> <<>>] >>

(***************************************************************************)
(* Properties of LessonView.                                               *)
(***************************************************************************)
\* The lesson shown is the lesson of a result of the history.
ShownIsInHistory ==
    /\ ~IsNull(lesson)
    /\ \E k \in 1..Len(history) : history[k].lessonData = Val(lesson)

\* C21: loadHistoryItem shows the stored lesson with the stored answers,
\* corrected and marked as saved; and while a lesson of the history is shown
\* no step puts another result in the history, the save button being gone
\* and checkAnswers saving nothing.
C21_LoadedLessonIsAlreadySaved ==
    /\ [][lastOp'.op = "load"
            => /\ showResults' /\ isSaved'
               /\ lesson' = Some(history[lastOp'.rec].lessonData)
               /\ quizAnswers' = history[lastOp'.rec].userAnswers]_vars
    /\ [](ShownIsInHistory => isSaved /\ showResults /\ ~CheckButton)
    /\ [][ShownIsInHistory => Len(history') <= Len(history)]_vars

\* A stored result was loaded: its lesson is shown with its answers.
C21_Witness ==
    /\ lastOp.op = "load"
    /\ activeTab = "create"
    /\ ShownIsInHistory
    /\ Val(lesson).generation = 0
    /\ Cardinality(DOMAIN quizAnswers) = MaxQuestions
    /\ isSaved

\* The results of the history made from the lesson of generation g.
ResultsOf(g) == {k \in 1..Len(history) : history[k].lessonData.generation = g}

\* C27: showResults and isSaved are equal in every state; once the view is
\* open a result is put in the history only for a lesson not yet saved, which stays saved as long
\* as it is shown, so the history never holds two results of one generated
\* lesson.
C27_ResultsShownIffSaved ==
    /\ [](showResults = isSaved)
    /\ [](\A g \in 1..Len(generates) : Cardinality(ResultsOf(g)) <= 1)
    /\ [][(view = "LessonView" /\ Len(history') > Len(history))
            => ~isSaved /\ isSaved' /\ ~ShownIsInHistory]_vars
    /\ [][(isSaved /\ lesson' = lesson) => isSaved']_vars

\* A generated lesson was answered, checked and saved, once.
C27_Witness ==
    /\ lastOp.op = "check"
    /\ showResults /\ isSaved
    /\ ~IsNull(lesson)
    /\ Val(lesson).generation = 1
    /\ Cardinality(ResultsOf(1)) = 1

(***************************************************************************)
(* Properties of the recording sessions.                                   *)
(***************************************************************************)
\* C22: the blob a recorder's onstop built holds exactly the non-empty
\* chunks that recorder emitted, in order, and no chunk of another session,
\* whatever the order of stop(), the next start() and the recorder's events.
C22_BlobHoldsItsOwnChunks ==
    \A r \in 1..Len(recorders) :
        ~IsNull(recorders[r].blob) => Val(recorders[r].blob) = NewBlob(recorders[r].emitted)

\* The user messages that carry a recording.
VoiceMessages ==
    {k \in 1..Len(messages) :
        /\ messages[k].role = "user"
        /\ ~IsNull(messages[k].attachment)
        /\ Val(messages[k].attachment).type = "audio"}

\* C23: a recording stopped by the Cancel button sends nothing: its onstop
\* appends no user message and issues no chat request, so there are no more
\* voice messages than recordings that were not cancelled.
C23_CancelSendsNothing ==
    /\ \A r \in 1..Len(recorders) :
        recorders[r].cancelled
            => /\ recorders[r].job \notin {"sending", "done", "failed"}
               /\ \A k \in 1..Len(requests) : requests[k] # Req("chat", r)
    /\ Cardinality(VoiceMessages)
          <= Cardinality({r \in 1..Len(recorders) : ~recorders[r].cancelled})

\* The chat requests in flight: chat.sendMessage calls not yet settled.
InFlight ==
    Cardinality({i \in 1..Len(sends) : sends[i].outcome = "pending"})
    + Cardinality({r \in 1..Len(recorders) : recorders[r].job = "sending"})

\* C24: in ChatView isLoading is true exactly while a chat request is in
\* flight, and at most one chat request is in flight at any time, whether
\* the sends come from the send button, the Enter key or a recording's onstop.
C24_OneChatRequestInFlight ==
    view = "ChatView" => /\ isLoading <=> InFlight > 0
                         /\ InFlight <= 1

\* The messages shown as loading their audio.
LoadingAudio == {k \in 1..Len(messages) : messages[k].isLoadingAudio}

\* C25: the ids of the messages are pairwise distinct after any sequence of
\* sends, replies and errors, so handlePlayAudio, which sets isLoadingAudio
\* by id, marks one message for each speech request it has pending.
C25_MessageIdsAreDistinct ==
    /\ \A j, k \in 1..Len(messages) : j # k => messages[j].id # messages[k].id
    /\ Cardinality(LoadingAudio)
          <= Cardinality({i \in 1..Len(speech) : speech[i].outcome = "pending"})

\* C26: in VisualDictView a pronunciation result held together with a card
\* is the score of that card's word, whatever the order of handleSubmit, the
\* recordings and the completions of the analyses in flight.
C26_ResultIsForTheCardShown ==
    (~IsNull(pronunciationResult) /\ ~IsNull(card))
        => Val(pronunciationResult).forWord = Val(card).word
====
